---- MODULE Spec2Model ----
(***************************************************************************)
(* State-machine model of the news ingestion / admission / publish         *)
(* pipeline of app/main.py over the SQLite repository of app/database.py.  *)
(*                                                                         *)
(* Every coroutine is modelled by a program counter that names the await   *)
(* it is suspended on.  One action = the repository (or network) call the  *)
(* coroutine awaits, taken atomically, followed by the synchronous code    *)
(* that runs up to the next await.  Where that synchronous code writes a   *)
(* process-wide global (the statistics, the running flag) the resumption   *)
(* is its own step, since other coroutines run between the completion of   *)
(* the awaited call and the resumption of the coroutine.                   *)
(*                                                                         *)
(* A title is a natural number; a candidate item is identified by its      *)
(* title (summary, url and source name never influence control flow).      *)
(***************************************************************************)
EXTENDS Integers, Sequences, FiniteSets, TLC

VARIABLES
    store,      \* table news: rows [id, title, sent] in order of column date
    nextId,     \* next AUTOINCREMENT id (never reused, also after DELETE)
    running,    \* auto_send_running
    handle,     \* auto_send_task: a task id, or NoTask
    tasks,      \* task id -> auto_send_loop coroutine (pc and locals)
    stats,      \* last_auto_parse_stats
    lastRun,    \* history: what the run that wrote stats really did
    parse,      \* request id -> api_parse_news coroutine
    starts,     \* request id -> api_start_auto_send coroutine
    pub,        \* request id -> api_send_telegram coroutine
    reply,      \* the last response of api_status (auto_send, parse_stats)
    budget      \* requests and injected failures the environment may still issue
                \* (under PassSpec also the sources' fixed answer)
VARIABLE
    orch        \* a call of scrape_all_sources, followed adapter by adapter

vars == <<store, nextId, running, handle, tasks, stats, lastRun, parse, starts, pub, reply, budget, orch>>

---------------------------------------------------------------------------
(* Program constants and bounds *)

TargetPending == 10

NTitles == 2
MaxTasks == 2

CandTitles == 1..NTitles
TaskIds == 1..MaxTasks
ParseIds == {1, 2}
StartIds == {1, 2}
PubIds == {1, 2}
NoTask == 0

\* Rows present before the process starts have titles outside CandTitles.
FillTitle(i) == 100 + i

Max(a, b) == IF a >= b THEN a ELSE b

---------------------------------------------------------------------------
(* Repository: app/database.py *)

Titles(s) == {s[i].title : i \in 1..Len(s)}

check_if_exists_never(s, title) == FALSE

check_if_exists(s, title) == title \in Titles(s)

get_news_count(s) == Len(s)

get_pending_count(s) == Cardinality({i \in 1..Len(s) : ~s[i].sent})

\* INSERT under the UNIQUE(title) constraint: the new store and the return value.
add_news_dup(s, id, title) ==
    [store |-> Append(s, [id |-> id, title |-> title, sent |-> FALSE]), ok |-> TRUE]

add_news(s, id, title) ==
    IF title \in Titles(s)
    THEN [store |-> s, ok |-> FALSE]
    ELSE [store |-> Append(s, [id |-> id, title |-> title, sent |-> FALSE]), ok |-> TRUE]

\* ORDER BY date DESC LIMIT 1 over the unsent rows: position of the row, 0 if none.
get_unsent_news_asc(s) ==
    LET U == {i \in 1..Len(s) : ~s[i].sent}
    IN IF U = {} THEN 0 ELSE CHOOSE i \in U : \A j \in U : i <= j

get_unsent_news(s) ==
    LET U == {i \in 1..Len(s) : ~s[i].sent}
    IN IF U = {} THEN 0 ELSE CHOOSE i \in U : \A j \in U : j <= i

mark_as_sent_toggle(s, id) ==
    [i \in 1..Len(s) |-> IF s[i].id = id THEN [s[i] EXCEPT !.sent = ~s[i].sent] ELSE s[i]]

mark_as_sent(s, id) ==
    [i \in 1..Len(s) |-> IF s[i].id = id THEN [s[i] EXCEPT !.sent = TRUE] ELSE s[i]]

clear_all_news(s) == <<>>

---------------------------------------------------------------------------
(* Orchestrator: app/scraper.py scrape_all_sources *)

\* Sources 1, 2, 3 are TechCrunch, The Verge and VentureBeat, in call order.
SrcLists == {<<>>} \cup {<<t>> : t \in CandTitles}

\* What one adapter call can do: return (items, True), return ([], False) from
\* its except branch, or raise from the code before its try block.
AdapterOutcomes ==
    {[kind |-> "online", items |-> l] : l \in SrcLists}
        \cup {[kind |-> "offline", items |-> <<>>], [kind |-> "raise", items |-> <<>>]}

AllOutcomes == [1..3 -> AdapterOutcomes]

\* Narrower environments: only the first source, or only the first two, ever
\* have articles or fail; the others are online with an empty page.
Quiet == [kind |-> "online", items |-> <<>>]

OneSourceOutcomes == {o \in AllOutcomes : o[2] = Quiet /\ o[3] = Quiet}

\* The first source is reachable and has at most one article.
OnlineOutcomes == {o \in OneSourceOutcomes : o[1].kind = "online"}

\* The first source has no article or always the same one, is offline, or raises.
SameArticleOutcomes == {o \in OneSourceOutcomes : o[1].items \in {<<>>, <<1>>}}

TwoSourceOutcomes == {o \in AllOutcomes : o[2].kind # "raise" /\ o[3] = Quiet}

NoSources == <<>>

scrape_all_sources(o) ==
    IF \E k \in 1..3 : o[k].kind = "raise"
    THEN [raised |-> TRUE, items |-> <<>>, sources |-> NoSources]
    ELSE [raised |-> FALSE,
          items |-> o[1].items \o o[2].items \o o[3].items,
          sources |-> [k \in 1..3 |->
                          [count |-> Len(o[k].items),
                           status |-> IF o[k].kind = "online" THEN "online" ELSE "offline"]]]

---------------------------------------------------------------------------
(* Initial state *)

InitPendings == {0, 1, TargetPending - 1, TargetPending}

InitStore(k) == [i \in 1..k |-> [id |-> i, title |-> FillTitle(i), sent |-> FALSE]]

IdleParse == [pc |-> "idle", pending |-> 0, cap |-> 0, items |-> <<>>, sources |-> NoSources,
              i |-> 0, added |-> 0, ins |-> 0, rej |-> 0]

NoLoop == [pc |-> "none", pending |-> 0, needed |-> 0, items |-> <<>>, sources |-> NoSources,
           i |-> 0, added |-> 0, duplicates |-> 0, ins |-> 0, seen |-> 0, skipped |-> 0,
           at |-> "none"]

IdlePub == [pc |-> "idle", id |-> 0, success |-> FALSE]

IdleStart == [pc |-> "idle", count |-> 0]

InitStats == [found |-> 0, added |-> 0, duplicates |-> 0, sources |-> NoSources]

NoRun == [mode |-> "none", pending |-> 0, cap |-> 0, ins |-> 0, dups |-> 0, skipped |-> 0]

NoReply == [auto_send |-> FALSE, parse_stats |-> InitStats]

IdleOrch == [pc |-> "idle", done |-> 0, inflight |-> {}, all_news |-> <<>>, source_stats |-> <<>>]

InitWith(b, K) ==
    /\ \E k \in K : store = InitStore(k) /\ nextId = k + 1
    /\ running = FALSE
    /\ handle = NoTask
    /\ tasks = [t \in TaskIds |-> NoLoop]
    /\ stats = InitStats
    /\ lastRun = NoRun
    /\ parse = [h \in ParseIds |-> IdleParse]
    /\ starts = [s \in StartIds |-> IdleStart]
    /\ pub = [p \in PubIds |-> IdlePub]
    /\ reply = NoReply
    /\ budget = b
    /\ orch = IdleOrch

---------------------------------------------------------------------------
(* Admission arithmetic of api_parse_news and auto_send_loop *)

\* max_to_add = max(0, 10 - pending_count)
Capacity(pending) == Max(0, TargetPending - pending)

\* if added_count >= max_to_add: break
ManualBreakGt(added, cap) == added > cap

ManualBreak(added, cap) == added >= cap

\* "duplicates": len(news_items) - added_count
ManualDuplicatesAll(found, added) == found

ManualDuplicates(found, added) == found - added

\* if pending_count < 10
NeedsRefillLe(pending) == pending <= TargetPending

NeedsRefill(pending) == pending < TargetPending

\* if added < needed
HasSpaceLe(added, needed) == added <= needed

HasSpace(added, needed) == added < needed

\* added += 1 after add_news, whose return value the loop does not read
LoopAddedAfter(added, ok) == added + 1

---------------------------------------------------------------------------
(* api_parse_news *)

ParseBegin(h) ==
    /\ parse[h].pc = "idle"
    /\ \A g \in ParseIds : g < h => parse[g].pc # "idle"
    /\ budget.parse > 0
    /\ budget' = [budget EXCEPT !.parse = @ - 1]
    /\ parse' = [parse EXCEPT ![h].pc = "count"]
    /\ UNCHANGED <<store, nextId, running, handle, tasks, stats, lastRun, starts, pub, reply, orch>>

ParseCount(h) ==
    /\ parse[h].pc = "count"
    /\ LET pending == get_pending_count(store)
           cap == Capacity(pending)
       IN parse' = [parse EXCEPT ![h] =
                        IF cap = 0 THEN IdleParse
                        ELSE [IdleParse EXCEPT !.pc = "scrape", !.pending = pending, !.cap = cap]]
    /\ UNCHANGED <<store, nextId, running, handle, tasks, stats, lastRun, starts, pub, budget, reply, orch>>

ParseScrape(h, O) ==
    /\ parse[h].pc = "scrape"
    /\ \E o \in O :
         LET r == scrape_all_sources(o)
         IN parse' = [parse EXCEPT ![h] =
                          IF r.raised \/ r.items = <<>> THEN IdleParse
                          ELSE [@ EXCEPT !.pc = "add", !.items = r.items,
                                         !.sources = r.sources, !.i = 1]]
    /\ UNCHANGED <<store, nextId, running, handle, tasks, stats, lastRun, starts, pub, budget, reply, orch>>

\* One pass of the for loop past its break: translate_to_russian(item.summary),
\* which reads and writes no state, then add_news for the candidate.
ParseAdd(h) ==
    /\ parse[h].pc = "add"
    /\ LET me == parse[h]
           r == add_news(store, nextId, me.items[me.i])
           added == IF r.ok THEN me.added + 1 ELSE me.added
           last == me.i = Len(me.items) \/ ManualBreak(added, me.cap)
       IN /\ store' = r.store
          /\ nextId' = IF Len(r.store) > Len(store) THEN nextId + 1 ELSE nextId
          /\ parse' = [parse EXCEPT ![h] =
                          [me EXCEPT !.added = added,
                                     !.ins = @ + (Len(r.store) - Len(store)),
                                     !.rej = IF r.ok THEN @ ELSE @ + 1,
                                     !.i = IF last THEN @ ELSE @ + 1,
                                     !.pc = IF last THEN "report" ELSE "add"]]
    /\ UNCHANGED <<running, handle, tasks, stats, lastRun, starts, pub, budget, reply, orch>>

ParseReport(h) ==
    /\ parse[h].pc = "report"
    /\ LET me == parse[h]
       IN /\ stats' = [found |-> Len(me.items), added |-> me.added,
                       duplicates |-> ManualDuplicates(Len(me.items), me.added),
                       sources |-> me.sources]
          \* history: of the candidates the loop never reached, those whose title
          \* is stored count as duplicates, the others as skipped for capacity
          /\ lastRun' = [mode |-> "manual", pending |-> me.pending, cap |-> me.cap, ins |-> me.ins,
                         dups |-> me.rej + Cardinality({j \in me.i + 1..Len(me.items) :
                                                          me.items[j] \in Titles(store)}),
                         skipped |-> Cardinality({j \in me.i + 1..Len(me.items) :
                                                    me.items[j] \notin Titles(store)})]
    /\ parse' = [parse EXCEPT ![h] = IdleParse]
    /\ UNCHANGED <<store, nextId, running, handle, tasks, starts, pub, budget, reply, orch>>

\* A repository call of the handler raises (anything but IntegrityError in
\* add_news): the request ends with an error response and nothing is reported.
ParseFail(h) ==
    /\ parse[h].pc \in {"count", "add"}
    /\ budget.fail > 0
    /\ budget' = [budget EXCEPT !.fail = @ - 1]
    /\ parse' = [parse EXCEPT ![h] = IdleParse]
    /\ UNCHANGED <<store, nextId, running, handle, tasks, stats, lastRun, starts, pub, reply, orch>>

---------------------------------------------------------------------------
(* auto_send_loop *)

Live(t) == tasks[t].pc \notin {"none", "done", "cancelled", "crashed"}

Ended(pc) == [NoLoop EXCEPT !.pc = pc]

\* The loop is created or its sleep is over: while auto_send_running.
LoopWake(t) ==
    /\ tasks[t].pc \in {"new", "sleep"}
    /\ tasks' = [tasks EXCEPT ![t] = IF running THEN Ended("count") ELSE Ended("done")]
    /\ UNCHANGED <<store, nextId, running, handle, stats, lastRun, parse, starts, pub, budget, reply, orch>>

LoopCount(t) ==
    /\ tasks[t].pc = "count"
    /\ LET pending == get_pending_count(store)
       IN tasks' = [tasks EXCEPT ![t] =
                        IF NeedsRefill(pending)
                        THEN [Ended("scrape") EXCEPT !.pending = pending,
                                                    !.needed = TargetPending - pending]
                        ELSE Ended("sleep")]
    /\ UNCHANGED <<store, nextId, running, handle, stats, lastRun, parse, starts, pub, budget, reply, orch>>

\* get_pending_count is awaited outside the try block: its exception ends the task.
LoopCountFail(t) ==
    /\ tasks[t].pc = "count"
    /\ budget.fail > 0
    /\ budget' = [budget EXCEPT !.fail = @ - 1]
    /\ tasks' = [tasks EXCEPT ![t] = Ended("crashed")]
    /\ UNCHANGED <<store, nextId, running, handle, stats, lastRun, parse, starts, pub, reply, orch>>

LoopScrape(t, O) ==
    /\ tasks[t].pc = "scrape"
    /\ \E o \in O :
         LET r == scrape_all_sources(o)
         IN tasks' = [tasks EXCEPT ![t] =
                          IF r.raised THEN Ended("sleep")
                          ELSE [@ EXCEPT !.pc = IF r.items = <<>> THEN "report" ELSE "check",
                                         !.items = r.items, !.sources = r.sources,
                                         !.i = IF r.items = <<>> THEN 0 ELSE 1]]
    /\ UNCHANGED <<store, nextId, running, handle, stats, lastRun, parse, starts, pub, budget, reply, orch>>

\* The for loop moves to the next candidate, or is over.
Advance(me) ==
    IF me.i = Len(me.items) THEN [me EXCEPT !.pc = "report"]
    ELSE [me EXCEPT !.pc = "check", !.i = @ + 1]

LoopCheck(t) ==
    /\ tasks[t].pc = "check"
    /\ LET now == tasks[t]
           \* history: candidates whose title was stored when they were examined
           me == [now EXCEPT !.seen = IF now.items[now.i] \in Titles(store) THEN @ + 1 ELSE @]
       IN tasks' = [tasks EXCEPT ![t] =
                        IF check_if_exists(store, me.items[me.i])
                        THEN Advance([me EXCEPT !.duplicates = @ + 1])
                        ELSE IF HasSpace(me.added, me.needed)
                             THEN [me EXCEPT !.pc = "add"]
                             ELSE Advance([me EXCEPT !.skipped = @ + 1])]
    /\ UNCHANGED <<store, nextId, running, handle, stats, lastRun, parse, starts, pub, budget, reply, orch>>

\* translate_to_russian(item.summary), then add_news for the candidate.
LoopAdd(t) ==
    /\ tasks[t].pc = "add"
    /\ LET me == tasks[t]
           r == add_news(store, nextId, me.items[me.i])
       IN /\ store' = r.store
          /\ nextId' = IF Len(r.store) > Len(store) THEN nextId + 1 ELSE nextId
          /\ tasks' = [tasks EXCEPT ![t] =
                          Advance([me EXCEPT !.added = LoopAddedAfter(@, r.ok),
                                             !.ins = @ + (Len(r.store) - Len(store))])]
    /\ UNCHANGED <<running, handle, stats, lastRun, parse, starts, pub, budget, reply, orch>>

\* except Exception: a repository call inside the try block raises.
LoopIterFail(t) ==
    /\ tasks[t].pc \in {"check", "add"}
    /\ budget.fail > 0
    /\ budget' = [budget EXCEPT !.fail = @ - 1]
    /\ tasks' = [tasks EXCEPT ![t] = Ended("sleep")]
    /\ UNCHANGED <<store, nextId, running, handle, stats, lastRun, parse, starts, pub, reply, orch>>

LoopReport(t) ==
    /\ tasks[t].pc = "report"
    /\ LET me == tasks[t]
       IN /\ stats' = [found |-> Len(me.items), added |-> me.added,
                       duplicates |-> me.duplicates, sources |-> me.sources]
          /\ lastRun' = [mode |-> "sched", pending |-> me.pending, cap |-> me.needed, ins |-> me.ins,
                         dups |-> me.seen, skipped |-> me.skipped]
    /\ tasks' = [tasks EXCEPT ![t] = Ended("sleep")]
    /\ UNCHANGED <<store, nextId, running, handle, parse, starts, pub, budget, reply, orch>>

---------------------------------------------------------------------------
(* api_start_auto_send, api_stop_auto_send *)

\* if auto_send_running: return
AlreadyRunningNever(flag) == FALSE

AlreadyRunning(flag) == flag

\* if count == 0: return JSONResponse(status_code=400, ...)
StartRefusedNever(count) == FALSE

StartRefused(count) == count = 0

StartCheck(s) ==
    /\ starts[s].pc = "idle"
    /\ \A g \in StartIds : g < s => starts[g].pc # "idle"
    /\ budget.start > 0
    /\ budget' = [budget EXCEPT !.start = @ - 1]
    /\ starts' = [starts EXCEPT ![s].pc = IF AlreadyRunning(running) THEN "idle" ELSE "count"]
    /\ UNCHANGED <<store, nextId, running, handle, tasks, stats, lastRun, parse, pub, reply, orch>>

\* count = await get_news_count()
StartCount(s) ==
    /\ starts[s].pc = "count"
    /\ starts' = [starts EXCEPT ![s] = [pc |-> "resume", count |-> get_news_count(store)]]
    /\ UNCHANGED <<store, nextId, running, handle, tasks, stats, lastRun, parse, pub, budget, reply, orch>>

FreeTask == CHOOSE t \in TaskIds : tasks[t].pc = "none" /\ \A u \in TaskIds : tasks[u].pc = "none" => t <= u

\* if count == 0: return 400; else set the flag and create the task
StartSpawn(s) ==
    /\ starts[s].pc = "resume"
    /\ starts' = [starts EXCEPT ![s] = IdleStart]
    /\ IF StartRefused(starts[s].count)
       THEN UNCHANGED <<running, handle, tasks>>
       ELSE /\ running' = TRUE
            /\ handle' = FreeTask
            /\ tasks' = [tasks EXCEPT ![FreeTask] = Ended("new")]
    /\ UNCHANGED <<store, nextId, stats, lastRun, parse, pub, budget, reply, orch>>

\* task.cancel(): CancelledError is raised in the task at the await it is
\* suspended on; it is not an Exception, so the loop's except does not catch it.
Cancel(me) == IF me.pc \in {"none", "done", "cancelled", "crashed"} THEN me
              ELSE [Ended("cancelled") EXCEPT !.at = me.pc]

\* While the task is inside scrape_all_sources it may be suspended on
\* page.query_selector under the bare `except: continue` of an adapter, which
\* swallows the CancelledError: the task then simply goes on.
CancelOutcomes(me) == IF me.pc = "scrape" THEN {Cancel(me), me} ELSE {Cancel(me)}

\* What api_stop_auto_send can leave in the three scheduler globals.
StopEffect(flag, h, ts) ==
    IF ~flag
    THEN {[running |-> flag, handle |-> h, tasks |-> ts]}
    ELSE IF h = NoTask
         THEN {[running |-> FALSE, handle |-> NoTask, tasks |-> ts]}
         ELSE {[running |-> FALSE, handle |-> NoTask, tasks |-> [ts EXCEPT ![h] = c]] :
                  c \in CancelOutcomes(ts[h])}

Stop ==
    /\ \E r \in StopEffect(running, handle, tasks) :
          /\ running' = r.running
          /\ handle' = r.handle
          /\ tasks' = r.tasks
    /\ UNCHANGED <<store, nextId, stats, lastRun, parse, starts, pub, budget, reply, orch>>

---------------------------------------------------------------------------
(* api_send_telegram, api_clear_database *)

\* if success: await mark_as_sent(news["id"])
MarksAlways(success) == TRUE

MarksOnResult(success) == success

PubRead(p) ==
    /\ pub[p].pc = "idle"
    /\ \A q \in PubIds : q < p => pub[q].pc # "idle"
    /\ budget.publish > 0
    /\ budget' = [budget EXCEPT !.publish = @ - 1]
    /\ LET k == get_unsent_news(store)
       IN pub' = [pub EXCEPT ![p] =
                      IF k = 0 THEN IdlePub
                      ELSE [pc |-> "send", id |-> store[k].id, success |-> FALSE]]
    /\ UNCHANGED <<store, nextId, running, handle, tasks, stats, lastRun, parse, starts, reply, orch>>

\* success, message = await send_news_to_telegram(...)
PubSend(p) ==
    /\ pub[p].pc = "send"
    /\ \E success \in BOOLEAN :
         pub' = [pub EXCEPT ![p].pc = IF MarksOnResult(success) THEN "mark" ELSE "failed",
                            ![p].success = success]
    /\ UNCHANGED <<store, nextId, running, handle, tasks, stats, lastRun, parse, starts, budget, reply, orch>>

PubMark(p) ==
    /\ pub[p].pc = "mark"
    /\ store' = mark_as_sent(store, pub[p].id)
    /\ pub' = [pub EXCEPT ![p] = IdlePub]
    /\ UNCHANGED <<nextId, running, handle, tasks, stats, lastRun, parse, starts, budget, reply, orch>>

\* return JSONResponse(status_code=500, ...)
PubFailed(p) ==
    /\ pub[p].pc = "failed"
    /\ pub' = [pub EXCEPT ![p] = IdlePub]
    /\ UNCHANGED <<store, nextId, running, handle, tasks, stats, lastRun, parse, starts, budget, reply, orch>>

Clear ==
    /\ budget.clear > 0
    /\ budget' = [budget EXCEPT !.clear = @ - 1]
    /\ store' = clear_all_news(store)
    /\ UNCHANGED <<nextId, running, handle, tasks, stats, lastRun, parse, starts, pub, reply, orch>>

\* api_status: the response is built from the globals after the last await.
Status ==
    /\ budget.status > 0
    /\ budget' = [budget EXCEPT !.status = @ - 1]
    /\ reply' = [auto_send |-> running, parse_stats |-> stats]
    /\ UNCHANGED <<store, nextId, running, handle, tasks, stats, lastRun, parse, starts, pub, orch>>

---------------------------------------------------------------------------
(* Specifications.  Each one lets the environment issue a subset of the     *)
(* requests, so that the interleavings a group of properties is about are   *)
(* explored exhaustively.                                                   *)

LoopSteps(O) ==
    \/ \E t \in TaskIds : LoopWake(t)
    \/ \E t \in TaskIds : LoopCount(t)
    \/ \E t \in TaskIds : LoopCountFail(t)
    \/ \E t \in TaskIds : LoopScrape(t, O)
    \/ \E t \in TaskIds : LoopCheck(t)
    \/ \E t \in TaskIds : LoopAdd(t)
    \/ \E t \in TaskIds : LoopIterFail(t)
    \/ \E t \in TaskIds : LoopReport(t)

StartStopSteps ==
    \/ \E s \in StartIds : StartCheck(s)
    \/ \E s \in StartIds : StartCount(s)
    \/ \E s \in StartIds : StartSpawn(s)
    \/ Stop

\* Scheduler life cycle: start and stop requests against the loop tasks.
SchedBudget == [parse |-> 0, start |-> MaxTasks, publish |-> 0, clear |-> 0, fail |-> 1, status |-> 0]
SchedInit == InitWith(SchedBudget, InitPendings)
SchedNext == StartStopSteps \/ LoopSteps(SameArticleOutcomes)
SchedSpec == SchedInit /\ [][SchedNext]_vars

\* Admission: two manual parse requests, one scheduler loop and a clear
\* request running against each other; no repository call fails, the
\* sources are reachable and the scheduler, once started, is not stopped.
AdmitBudget == [parse |-> 2, start |-> 1, publish |-> 0, clear |-> 1, fail |-> 0, status |-> 0]
AdmitInit == InitWith(AdmitBudget, {TargetPending - 1, TargetPending})
AdmitNext ==
    \/ \E h \in ParseIds : ParseBegin(h)
    \/ \E h \in ParseIds : ParseCount(h)
    \/ \E h \in ParseIds : ParseScrape(h, OnlineOutcomes)
    \/ \E h \in ParseIds : ParseAdd(h)
    \/ \E h \in ParseIds : ParseReport(h)
    \/ \E t \in TaskIds : LoopWake(t)
    \/ \E t \in TaskIds : LoopCount(t)
    \/ \E t \in TaskIds : LoopScrape(t, OnlineOutcomes)
    \/ \E t \in TaskIds : LoopCheck(t)
    \/ \E t \in TaskIds : LoopAdd(t)
    \/ \E t \in TaskIds : LoopReport(t)
    \/ \E s \in StartIds : StartCheck(s)
    \/ \E s \in StartIds : StartCount(s)
    \/ \E s \in StartIds : StartSpawn(s)
    \/ Clear
AdmitSpec == AdmitInit /\ [][AdmitNext]_vars

\* Admission one run at a time: the environment issues a manual parse,
\* publish or clear request only while no other run is in flight, and the loop
\* sleeps through the requests of others; no repository call fails and the
\* scheduler, once started, is not stopped.
ParseBusy == \E h \in ParseIds : parse[h].pc # "idle"
LoopBusy == \E t \in TaskIds : tasks[t].pc \in {"count", "scrape", "check", "add", "report"}
PubBusy == \E p \in PubIds : pub[p].pc # "idle"

SeqBudget == [parse |-> 2, start |-> 1, publish |-> 1, clear |-> 1, fail |-> 0, status |-> 0]
SeqInit == InitWith(SeqBudget, {0, TargetPending - 1, TargetPending})
SeqNext ==
    \/ ~LoopBusy /\ ~PubBusy /\ ParseBegin(1)
    \/ ParseCount(1)
    \/ ParseScrape(1, TwoSourceOutcomes)
    \/ ParseAdd(1)
    \/ ParseReport(1)
    \/ ~ParseBusy /\ ~PubBusy /\ \E t \in TaskIds : LoopWake(t)
    \/ \E t \in TaskIds : LoopCount(t)
    \/ \E t \in TaskIds : LoopScrape(t, TwoSourceOutcomes)
    \/ \E t \in TaskIds : LoopCheck(t)
    \/ \E t \in TaskIds : LoopAdd(t)
    \/ \E t \in TaskIds : LoopReport(t)
    \/ \E s \in StartIds : StartCheck(s)
    \/ \E s \in StartIds : StartCount(s)
    \/ \E s \in StartIds : StartSpawn(s)
    \/ ~ParseBusy /\ ~LoopBusy /\ PubRead(1)
    \/ PubSend(1)
    \/ PubMark(1)
    \/ PubFailed(1)
    \/ ~ParseBusy /\ ~LoopBusy /\ ~PubBusy /\ Clear
SeqSpec == SeqInit /\ [][SeqNext]_vars

\* Every kind of request against one scheduler loop, on a small environment in
\* which no repository call fails and the sources answer: admission runs and
\* publish requests do not overlap each other, two publish requests do, and
\* stop and status arrive at any time.
AllBudget == [parse |-> 1, start |-> 1, publish |-> 2, clear |-> 1, fail |-> 0, status |-> 1]
AllInit == InitWith(AllBudget, {1})
AllNext ==
    \/ ~LoopBusy /\ ~PubBusy /\ ParseBegin(1)
    \/ ParseCount(1)
    \/ ParseScrape(1, OnlineOutcomes)
    \/ ParseAdd(1)
    \/ ParseReport(1)
    \/ ~ParseBusy /\ ~PubBusy /\ \E t \in TaskIds : LoopWake(t)
    \/ \E t \in TaskIds : LoopCount(t)
    \/ \E t \in TaskIds : LoopScrape(t, OnlineOutcomes)
    \/ \E t \in TaskIds : LoopCheck(t)
    \/ \E t \in TaskIds : LoopAdd(t)
    \/ \E t \in TaskIds : LoopReport(t)
    \/ StartStopSteps
    \/ ~ParseBusy /\ ~LoopBusy /\ \E p \in PubIds : PubRead(p)
    \/ \E p \in PubIds : PubSend(p)
    \/ \E p \in PubIds : PubMark(p)
    \/ \E p \in PubIds : PubFailed(p)
    \/ ~ParseBusy /\ ~LoopBusy /\ ~PubBusy /\ Clear
    \/ Status

AllSpec == AllInit /\ [][AllNext]_vars

\* Admission against one fixed answer of the sources: every orchestration run
\* of a behaviour gets the same adapter outcomes (feed), runs come one at a
\* time, in either mode, and nothing else touches the store.  The store starts
\* with some candidate titles already published (sent) and a number of unsent
\* rows; budget also carries the feed and the number of initial rows.
PassTitles == 1..(NTitles + 2)

PassLists == {<<>>} \cup {<<t>> : t \in PassTitles}

PassOutcomes ==
    [1..3 -> {[kind |-> "online", items |-> l] : l \in PassLists}
                 \cup {[kind |-> "offline", items |-> <<>>], [kind |-> "raise", items |-> <<>>]}]

PassPendings == {0, TargetPending - 2, TargetPending - 1, TargetPending}

PassStore(m, u) ==
    [i \in 1..(m + u) |->
        IF i <= m THEN [id |-> i, title |-> i, sent |-> TRUE]
        ELSE [id |-> i, title |-> FillTitle(i), sent |-> FALSE]]

PassBudget(o, n) ==
    [parse |-> 2, start |-> 1, publish |-> 0, clear |-> 0, fail |-> 0, status |-> 0,
     feed |-> o, rows0 |-> n]

PassInit ==
    /\ \E m \in 0..(NTitles + 1) : \E u \in PassPendings :
          store = PassStore(m, u) /\ nextId = m + u + 1
    /\ \E o \in PassOutcomes : budget = PassBudget(o, Len(store))
    /\ running = FALSE
    /\ handle = NoTask
    /\ tasks = [t \in TaskIds |-> NoLoop]
    /\ stats = InitStats
    /\ lastRun = NoRun
    /\ parse = [h \in ParseIds |-> IdleParse]
    /\ starts = [s \in StartIds |-> IdleStart]
    /\ pub = [p \in PubIds |-> IdlePub]
    /\ reply = NoReply
    /\ orch = IdleOrch

PassNext ==
    \/ ~LoopBusy /\ ParseBegin(1)
    \/ ParseCount(1)
    \/ ParseScrape(1, {budget.feed})
    \/ ParseAdd(1)
    \/ ParseReport(1)
    \/ ~ParseBusy /\ \E t \in TaskIds : LoopWake(t)
    \/ \E t \in TaskIds : LoopCount(t)
    \/ \E t \in TaskIds : LoopScrape(t, {budget.feed})
    \/ \E t \in TaskIds : LoopCheck(t)
    \/ \E t \in TaskIds : LoopAdd(t)
    \/ \E t \in TaskIds : LoopReport(t)
    \/ \E s \in StartIds : StartCheck(s)
    \/ \E s \in StartIds : StartCount(s)
    \/ \E s \in StartIds : StartSpawn(s)

PassSpec == PassInit /\ [][PassNext]_vars

---------------------------------------------------------------------------
(* scrape_all_sources, adapter by adapter.  The handlers above take a call   *)
(* of the orchestrator as one step; here one call is followed through its    *)
(* awaits, the adapters answering as budget.feed says.                       *)

\* The adapters the orchestrator has in flight once `done` of them have
\* returned: it awaits each call before making the next one.
NextAdaptersAll(done) == IF done = 0 THEN {1, 2, 3} ELSE {}

NextAdapters(done) == IF done < 3 THEN {done + 1} ELSE {}

\* async with async_playwright(), chromium.launch, the call of the first adapter
OrchCall ==
    /\ orch.pc = "idle"
    /\ orch' = [IdleOrch EXCEPT !.pc = "run", !.inflight = NextAdapters(0)]
    /\ UNCHANGED <<store, nextId, running, handle, tasks, stats, lastRun, parse, starts, pub,
                   reply, budget>>

\* Adapter k returns (items, online), or raises from outside its try block:
\* source_stats[name] = {...}; all_news.extend(items); the next call.
OrchAdapterReturn(k) ==
    /\ orch.pc = "run"
    /\ k \in orch.inflight
    /\ LET a == budget.feed[k]
       IN orch' =
            IF a.kind = "raise"
            THEN [orch EXCEPT !.pc = "raised", !.inflight = {}]
            ELSE [orch EXCEPT
                    !.done = @ + 1,
                    !.inflight = (@ \ {k}) \cup NextAdapters(orch.done + 1),
                    !.all_news = @ \o a.items,
                    !.source_stats =
                        [j \in DOMAIN @ \cup {k} |->
                            IF j = k
                            THEN [count |-> Len(a.items),
                                  status |-> IF a.kind = "online" THEN "online" ELSE "offline"]
                            ELSE @[j]]]
    /\ UNCHANGED <<store, nextId, running, handle, tasks, stats, lastRun, parse, starts, pub,
                   reply, budget>>

\* await browser.close(); return {"items": all_news, "sources": source_stats}
OrchClose ==
    /\ orch.pc = "run"
    /\ orch.done = 3
    /\ orch.inflight = {}
    /\ orch' = [orch EXCEPT !.pc = "returned"]
    /\ UNCHANGED <<store, nextId, running, handle, tasks, stats, lastRun, parse, starts, pub,
                   reply, budget>>

OrchInit == \E o \in PassOutcomes : InitWith(PassBudget(o, 0), {0})

OrchNext ==
    \/ OrchCall
    \/ \E k \in 1..3 : OrchAdapterReturn(k)
    \/ OrchClose

OrchSpec == OrchInit /\ [][OrchNext]_vars

---------------------------------------------------------------------------
(* The scheduler refilling the queue.  The scheduler is started and never    *)
(* stopped, nothing is published or cleared, a manual parse may run across   *)
(* the loop, one repository call of the loop may fail, and every call of     *)
(* the orchestrator returns a candidate whose title is not stored (as long   *)
(* as there is such a title); the queue is one short of the target, so one   *)
(* such candidate is all a run needs.  The event loop resumes every          *)
(* coroutine that is ready and every sleep ends: each step of a coroutine    *)
(* is weakly fair; requests and failures are not.                            *)

NovelOutcomes(s) ==
    {o \in OnlineOutcomes : o[1].items # <<>> /\ o[1].items[1] \notin Titles(s)}

TopFeed(s) == IF NovelOutcomes(s) = {} THEN OnlineOutcomes ELSE NovelOutcomes(s)

TopBudget == [parse |-> 1, start |-> 1, publish |-> 0, clear |-> 0, fail |-> 1, status |-> 0]

TopInit == InitWith(TopBudget, {TargetPending - 1})

TopNext ==
    \/ ParseBegin(1)
    \/ ParseCount(1)
    \/ ParseScrape(1, TopFeed(store))
    \/ ParseAdd(1)
    \/ ParseReport(1)
    \/ \E t \in TaskIds : LoopWake(t)
    \/ \E t \in TaskIds : LoopCount(t)
    \/ \E t \in TaskIds : LoopCountFail(t)
    \/ \E t \in TaskIds : LoopScrape(t, TopFeed(store))
    \/ \E t \in TaskIds : LoopCheck(t)
    \/ \E t \in TaskIds : LoopAdd(t)
    \/ \E t \in TaskIds : LoopIterFail(t)
    \/ \E t \in TaskIds : LoopReport(t)
    \/ \E s \in StartIds : StartCheck(s)
    \/ \E s \in StartIds : StartCount(s)
    \/ \E s \in StartIds : StartSpawn(s)

TopFair ==
    /\ WF_vars(ParseCount(1))
    /\ WF_vars(ParseScrape(1, TopFeed(store)))
    /\ WF_vars(ParseAdd(1))
    /\ WF_vars(ParseReport(1))
    /\ \A t \in TaskIds :
          /\ WF_vars(LoopWake(t))
          /\ WF_vars(LoopCount(t))
          /\ WF_vars(LoopScrape(t, TopFeed(store)))
          /\ WF_vars(LoopCheck(t))
          /\ WF_vars(LoopAdd(t))
          /\ WF_vars(LoopReport(t))
    /\ \A s \in StartIds :
          /\ WF_vars(StartCount(s))
          /\ WF_vars(StartSpawn(s))

TopSpec == TopInit /\ [][TopNext]_vars /\ TopFair

---------------------------------------------------------------------------
(* Properties of the scheduler life cycle, checked under SchedSpec *)

LiveTasks == {t \in TaskIds : Live(t)}

\* C1: at most one auto_send_loop task is alive at any time, whatever the
\* interleaving of start and stop requests.
C1_AtMostOneLoop == Cardinality(LiveTasks) <= 1

\* C7: a failure raised inside a scheduler iteration (pending-count read,
\* orchestration, existence check, insert) never ends the loop task: the task
\* goes on to its sleep.
C7_FailureKeepsLoop ==
    [][\A t \in TaskIds :
          (budget'.fail < budget.fail /\ tasks'[t] # tasks[t]) => tasks'[t].pc = "sleep"]_vars

\* C8: stop() cancels only the sleep: a task is never cancelled while its
\* orchestration/admission cycle is in flight.
C8_CycleNeverAborted ==
    \A t \in TaskIds :
        tasks[t].pc = "cancelled" => tasks[t].at \notin {"scrape", "check", "add", "report"}

---------------------------------------------------------------------------
(* Properties of admission *)

\* C2: no two stored items share a title, in every reachable state.
C2_TitlesUnique ==
    \A i, j \in 1..Len(store) : i # j => store[i].title # store[j].title

\* A manual run had an insert refused by the uniqueness constraint.
C2_Witness == \E h \in ParseIds : parse[h].pc = "report" /\ parse[h].rej > 0

\* C3: the number of stored items with sent = false never exceeds the target
\* size, also when admission runs overlap.
C3_PendingBounded == get_pending_count(store) <= TargetPending

\* C4: the added count a run reports equals the number of rows that run
\* inserted into the store.
C4_AddedIsInserted == lastRun.mode # "none" => stats.added = lastRun.ins

\* C5: every admission run, while in flight and when it reports, has added
\* (and inserted) at most capacity = max(0, 10 - pending read at its start);
\* a run whose capacity is 0 never gets past its count, so it adds nothing.
C5_AddedWithinCapacity ==
    /\ \A h \in ParseIds :
          parse[h].pc \in {"scrape", "add", "report"} =>
              /\ parse[h].cap = Max(0, TargetPending - parse[h].pending)
              /\ parse[h].cap >= 1
              /\ parse[h].added <= parse[h].cap
              /\ parse[h].ins <= parse[h].cap
    /\ \A t \in TaskIds :
          tasks[t].pc \in {"scrape", "check", "add", "report"} =>
              /\ tasks[t].needed = Max(0, TargetPending - tasks[t].pending)
              /\ tasks[t].needed >= 1
              /\ tasks[t].added <= tasks[t].needed
              /\ tasks[t].ins <= tasks[t].needed
    /\ lastRun.mode # "none" =>
              /\ lastRun.cap = Max(0, TargetPending - lastRun.pending)
              /\ stats.added <= lastRun.cap
              /\ lastRun.ins <= lastRun.cap

\* A scheduled run filled its capacity and passed over a further novel candidate.
C5_Witness ==
    lastRun.mode = "sched" /\ stats.added = lastRun.cap /\ lastRun.skipped > 0

\* C6 as claimed: in both modes the reported duplicates are the candidates
\* whose title was already stored, and found = added + duplicates + skipped.
C6_StatsAddUp ==
    lastRun.mode # "none" =>
        /\ stats.duplicates = lastRun.dups
        /\ stats.found = stats.added + stats.duplicates + lastRun.skipped

\* C6 as amended: the identity with exact duplicates holds for scheduled runs;
\* a manual run reports duplicates = found - added, which is the candidates
\* whose title was stored plus the novel candidates left out for capacity.
C6_StatsAddUpAmended ==
    /\ lastRun.mode = "sched" =>
          /\ stats.duplicates = lastRun.dups
          /\ stats.found = stats.added + stats.duplicates + lastRun.skipped
    /\ lastRun.mode = "manual" =>
          /\ stats.duplicates = lastRun.dups + lastRun.skipped
          /\ stats.found = stats.added + stats.duplicates

\* A manual run stopped at capacity and left a novel candidate out.
C6_Witness == lastRun.mode = "manual" /\ lastRun.skipped > 0 /\ stats.added > 0

---------------------------------------------------------------------------
(* Properties of the publish path, checked under AllSpec *)

\* C9: a publish request whose send fails ends without touching the store (its
\* only remaining step is the error response), and the sent flag of an item
\* changes only in the mark step of a publish request whose send succeeded.
C9_FailedPublishKeepsStore ==
    [][/\ \A p \in PubIds :
            (pub[p].pc = "send" /\ pub'[p].pc # "send" /\ ~pub'[p].success)
                => (store' = store /\ pub'[p].pc = "failed")
       /\ \A p \in PubIds :
            (pub[p].pc = "failed" /\ pub'[p] # pub[p]) => (store' = store /\ pub'[p] = IdlePub)
       /\ \A i \in 1..Len(store) : \A j \in 1..Len(store') :
            (store[i].id = store'[j].id /\ store[i].sent # store'[j].sent) =>
                \E p \in PubIds : /\ pub[p].pc = "mark" /\ pub[p].success
                                  /\ pub[p].id = store[i].id /\ pub'[p] = IdlePub]_vars

\* A publish request failed and the item it selected is still unsent.
C9_Witness ==
    \E p \in PubIds : /\ pub[p].pc = "failed"
                      /\ \E i \in 1..Len(store) : store[i].id = pub[p].id /\ ~store[i].sent

\* C10: the sent flag of a stored item only ever goes from false to true, and
\* only in the mark step of a publish request; every other step leaves the
\* sent flag of every existing item as it is.
C10_SentMonotone ==
    [][\A i \in 1..Len(store) : \A j \in 1..Len(store') :
          store[i].id = store'[j].id =>
              /\ store[i].sent => store'[j].sent
              /\ store[i].sent # store'[j].sent =>
                    \E p \in PubIds : /\ pub[p].pc = "mark" /\ pub'[p].pc = "idle"
                                      /\ pub[p].id = store[i].id]_vars

\* An item is sent and stays so while the scheduler runs and a parse has reported.
C10_Witness ==
    /\ \E i \in 1..Len(store) : store[i].sent
    /\ running
    /\ lastRun.mode # "none"

---------------------------------------------------------------------------
(* Selection of the item to publish, checked under AllSpec *)

Unsent(s) == {i \in 1..Len(s) : ~s[i].sent}

\* C11 as claimed: the item a publish request selects is the oldest unsent
\* item, the unsent row with the earliest creation time.
C11_SelectsOldest ==
    [][\A p \in PubIds :
          (pub[p].pc = "idle" /\ pub'[p].pc = "send") =>
              \E i \in Unsent(store) : /\ store[i].id = pub'[p].id
                                       /\ \A j \in Unsent(store) : i <= j]_vars

\* C11 as amended: the item a publish request selects is the latest unsent
\* item, the unsent row with the latest creation time; a request that finds no
\* unsent row selects nothing and ends.
C11_SelectsLatest ==
    [][\A p \in PubIds :
          /\ (pub[p].pc = "idle" /\ pub'[p].pc = "send") =>
                \E i \in Unsent(store) : /\ store[i].id = pub'[p].id
                                         /\ \A j \in Unsent(store) : j <= i
          /\ (budget'.publish < budget.publish /\ pub[p].pc = "idle" /\ Unsent(store) # {}
                /\ \A q \in PubIds : q < p => pub[q].pc # "idle") => pub'[p].pc = "send"]_vars

\* A publish request holds the later of two unsent items, the older one waiting.
C11_Witness ==
    \E p \in PubIds : \E i, j \in Unsent(store) :
        i < j /\ pub[p].pc = "send" /\ pub[p].id = store[j].id

---------------------------------------------------------------------------
(* Start and stop requests, checked under SchedSpec *)

\* C12: a start request reads the number of stored items; if it read zero it
\* ends with the error and changes nothing (running, task handle, loop tasks,
\* store and statistics stay as they are); if it read at least one it sets
\* running and spawns exactly one new loop task, which the handle then names.
C12_StartNeedsItems ==
    [][\A s \in StartIds :
          /\ (starts[s].pc = "count" /\ starts'[s].pc = "resume") =>
                starts'[s].count = Len(store)
          /\ (starts[s].pc = "resume" /\ starts'[s].pc = "idle") =>
                IF starts[s].count = 0
                THEN UNCHANGED <<running, handle, tasks, store, stats>>
                ELSE /\ running'
                     /\ handle' \in TaskIds
                     /\ tasks[handle'].pc = "none"
                     /\ tasks'[handle'].pc = "new"
                     /\ \A u \in TaskIds \ {handle'} : tasks'[u] = tasks[u]]_vars

\* A start request was refused on the empty store: it is over, the scheduler
\* is not running and no loop task was ever created.
C12_Witness ==
    /\ budget.start < SchedBudget.start
    /\ \A s \in StartIds : starts[s].pc = "idle"
    /\ store = <<>>
    /\ ~running
    /\ handle = NoTask
    /\ \A t \in TaskIds : tasks[t].pc = "none"

\* C13: a start request that finds the scheduler running ends at once and
\* leaves running, the task handle and every loop task as they are; a stop
\* request on a scheduler that is not running leaves them as they are too.
C13_SequentialNoOps ==
    /\ [][(budget'.start < budget.start /\ running) =>
              (starts' = starts /\ UNCHANGED <<running, handle, tasks>>)]_vars
    /\ [](~running =>
              StopEffect(running, handle, tasks)
                  = {[running |-> running, handle |-> handle, tasks |-> tasks]})

\* Two start requests are over and only the first one created a loop task.
C13_Witness ==
    /\ budget.start = 0
    /\ \A s \in StartIds : starts[s].pc = "idle"
    /\ running
    /\ Cardinality({t \in TaskIds : tasks[t].pc # "none"}) = 1

---------------------------------------------------------------------------
(* Admission as a function of the store, the candidate list and the          *)
(* capacity, checked under PassSpec.  The reference values below are stated  *)
(* from the initial store and the candidate list alone.                      *)

PassStore0 == SubSeq(store, 1, budget.rows0)

PassItems == scrape_all_sources(budget.feed).items

PassCap0 == Max(0, TargetPending - Cardinality(Unsent(PassStore0)))

\* Positions of the novel candidates: title not in the initial store, first
\* occurrence of the title in the list.
FirstNovel ==
    {i \in 1..Len(PassItems) :
        /\ PassItems[i] \notin Titles(PassStore0)
        /\ \A j \in 1..(i - 1) : PassItems[j] # PassItems[i]}

\* Position of the k-th novel candidate in list order.
KthNovel(k) == CHOOSE i \in FirstNovel : Cardinality({j \in FirstNovel : j <= i}) = k

RefAdded ==
    IF Cardinality(FirstNovel) <= PassCap0 THEN Cardinality(FirstNovel) ELSE PassCap0

RefTitles == Titles(PassStore0) \cup {PassItems[KthNovel(k)] : k \in 1..RefAdded}

\* Candidates whose title is stored when they are examined: stored from the
\* start, or admitted earlier in the same walk.
RefDuplicates ==
    Cardinality({i \in 1..Len(PassItems) :
                    \/ PassItems[i] \in Titles(PassStore0)
                    \/ \E k \in 1..RefAdded : KthNovel(k) < i /\ PassItems[KthNovel(k)] = PassItems[i]})

\* C15: a scheduled run on an otherwise untouched store walks the whole list
\* and reports exact counts: found = length of the list, duplicates = the
\* candidates already stored when examined, added = min(capacity, novel
\* candidates); the rows it inserted are the first `added` novel candidates in
\* list order, unsent; the other novel candidates are counted in found only.
C15_ExhaustiveExact ==
    (lastRun.mode = "sched" /\ Len(store) - budget.rows0 = lastRun.ins) =>
        /\ lastRun.cap = PassCap0
        /\ stats.found = Len(PassItems)
        /\ stats.duplicates = lastRun.dups
        /\ stats.duplicates = RefDuplicates
        /\ stats.added = RefAdded
        /\ stats.added = IF stats.found - stats.duplicates <= lastRun.cap
                         THEN stats.found - stats.duplicates ELSE lastRun.cap
        /\ Len(store) = budget.rows0 + stats.added
        /\ \A k \in 1..stats.added :
              /\ store[budget.rows0 + k].title = PassItems[KthNovel(k)]
              /\ ~store[budget.rows0 + k].sent
        /\ lastRun.skipped = stats.found - stats.added - stats.duplicates

\* One stored title among three candidates, capacity 1: one duplicate, one
\* added, one novel candidate left out.
C15_Witness ==
    /\ lastRun.mode = "sched"
    /\ lastRun.cap = 1
    /\ stats.found = 3
    /\ stats.duplicates = 1
    /\ stats.added = 1
    /\ lastRun.skipped = 1
    /\ Len(store) = budget.rows0 + 1

\* C19: from the same store, candidate list and capacity a manual run and a
\* scheduled run add the same number of items and leave the same stored
\* titles: both end with the reference result, and no run ever stores more.
C19_ModesAgree ==
    /\ \A h \in ParseIds :
          (parse[h].pc = "report" /\ Len(store) - budget.rows0 = parse[h].ins) =>
              /\ parse[h].cap = PassCap0
              /\ parse[h].added = RefAdded
              /\ Titles(store) = RefTitles
    /\ \A t \in TaskIds :
          (tasks[t].pc = "report" /\ Len(store) - budget.rows0 = tasks[t].ins) =>
              /\ tasks[t].needed = PassCap0
              /\ tasks[t].added = RefAdded
              /\ Titles(store) = RefTitles
    /\ Titles(store) \subseteq RefTitles
    /\ Len(store) <= budget.rows0 + RefAdded

\* A manual run filled its capacity and stopped before the end of the list.
C19_Witness ==
    \E h \in ParseIds :
        /\ parse[h].pc = "report"
        /\ parse[h].added = parse[h].cap
        /\ parse[h].i < Len(parse[h].items)
        /\ \E j \in (parse[h].i + 1)..Len(parse[h].items) : parse[h].items[j] \notin Titles(store)

\* C14 as claimed: after admission has run twice on the same candidate list,
\* nothing else touching the store, the second run has reported added = 0 and
\* duplicates = found.
C14_SecondRunAllDuplicates ==
    (/\ budget.parse = 0
     /\ \A h \in ParseIds : parse[h].pc = "idle"
     /\ budget.start = 1
     /\ \A s \in StartIds : starts[s].pc = "idle") =>
        (stats.added = 0 /\ stats.duplicates = stats.found)

\* C14 as amended: a run that reports after an earlier run on the same list
\* has reported inserts nothing and reports added = 0 and duplicates = found;
\* a run that reads a full pending queue (as the first run leaves it when the
\* list had more novel candidates than capacity) ends before orchestration and
\* reports nothing, so the statistics stay those of the earlier run.
C14_RerunAllDuplicates ==
    [][/\ \A h \in ParseIds :
            (parse[h].pc = "report" /\ parse'[h].pc = "idle" /\ lastRun.mode # "none") =>
                (parse[h].ins = 0 /\ stats'.added = 0 /\ stats'.duplicates = stats'.found)
       /\ \A t \in TaskIds :
            (tasks[t].pc = "report" /\ tasks'[t].pc = "sleep" /\ lastRun.mode # "none") =>
                (tasks[t].ins = 0 /\ stats'.added = 0 /\ stats'.duplicates = stats'.found)
       /\ \A h \in ParseIds :
            (parse[h].pc = "count" /\ parse'[h] # parse[h]
                /\ Cardinality(Unsent(store)) >= TargetPending) =>
                (parse'[h].pc = "idle" /\ stats' = stats /\ store' = store)
       /\ \A t \in TaskIds :
            (tasks[t].pc = "count" /\ tasks'[t] # tasks[t]
                /\ Cardinality(Unsent(store)) >= TargetPending) =>
                (tasks'[t].pc = "sleep" /\ stats' = stats /\ store' = store)]_vars

\* A run inserted candidates and a later run on the same list reported them
\* all as duplicates.
C14_Witness ==
    /\ lastRun.mode # "none"
    /\ Len(store) > budget.rows0
    /\ stats.found > 0
    /\ stats.added = 0
    /\ stats.duplicates = stats.found

---------------------------------------------------------------------------
(* Orchestration and the admission rule, checked under PassSpec *)

\* What runAll() returns when every adapter failure is isolated: a failing
\* adapter is offline with count 0 and no items, the others are as they are.
IsolatedItems(o, k) == IF o[k].kind = "online" THEN o[k].items ELSE <<>>

IsolatedResult(o) ==
    [items |-> IsolatedItems(o, 1) \o IsolatedItems(o, 2) \o IsolatedItems(o, 3),
     sources |-> [k \in 1..3 |->
                     [count |-> Len(IsolatedItems(o, k)),
                      status |-> IF o[k].kind = "online" THEN "online" ELSE "offline"]]]

\* C17: whatever the adapters do, the orchestration of a run completes and
\* hands the run the items and the per-source status of the isolated result:
\* a failing adapter is offline with count 0, the others are unaffected.
C17_FailureIsolated ==
    [][/\ \A h \in ParseIds :
            (parse[h].pc = "scrape" /\ parse'[h].pc # "scrape") =>
                IF IsolatedResult(budget.feed).items = <<>>
                THEN parse'[h].pc = "idle"
                ELSE /\ parse'[h].pc = "add"
                     /\ parse'[h].items = IsolatedResult(budget.feed).items
                     /\ parse'[h].sources = IsolatedResult(budget.feed).sources
       /\ \A t \in TaskIds :
            (tasks[t].pc = "scrape" /\ tasks'[t].pc # "scrape") =>
                /\ tasks'[t].pc \in {"check", "report"}
                /\ tasks'[t].items = IsolatedResult(budget.feed).items
                /\ tasks'[t].sources = IsolatedResult(budget.feed).sources]_vars

\* C20: in either mode a run is never about to translate and insert a
\* candidate whose title is stored (the step a run takes from "add" is the
\* translator call followed by the insert for its current candidate).
C20_DuplicateOnlyCounted ==
    /\ \A h \in ParseIds :
          parse[h].pc = "add" => parse[h].items[parse[h].i] \notin Titles(store)
    /\ \A t \in TaskIds :
          tasks[t].pc = "add" => tasks[t].items[tasks[t].i] \notin Titles(store)

---------------------------------------------------------------------------
(* Scheduler iterations and stop, checked under SchedSpec *)

\* C16: an iteration of the loop that reads a pending count of 10 or more
\* goes straight to its sleep: it does not call the scraper and the step
\* leaves the store and the statistics as they are.
C16_FullQueueSkips ==
    [][\A t \in TaskIds :
          (/\ tasks[t].pc = "count" /\ tasks'[t] # tasks[t]
           /\ running' = running /\ budget' = budget
           /\ Cardinality(Unsent(store)) >= TargetPending) =>
              /\ tasks'[t].pc = "sleep"
              /\ store' = store
              /\ stats' = stats
              /\ lastRun' = lastRun]_vars

\* The queue has been full from the start and a loop has gone to sleep over it.
C16_Witness ==
    /\ Len(store) = TargetPending
    /\ nextId = TargetPending + 1
    /\ Cardinality(Unsent(store)) = TargetPending
    /\ stats = InitStats
    /\ \E t \in TaskIds : tasks[t].pc = "sleep"

\* C18: once a stop request has returned and for as long as the scheduler is
\* not started again, no loop task reads the pending count, orchestrates,
\* examines or inserts: the only step a loop task takes is to end.
C18_StoppedLoopIsQuiet ==
    [][(~running /\ ~running') =>
          \A t \in TaskIds :
              tasks'[t] = tasks[t] \/ tasks'[t].pc \in {"done", "cancelled", "crashed"}]_vars

---------------------------------------------------------------------------
(* The statistics of the last run, checked under PassSpec *)

\* C21: when an orchestration run completes, manual or scheduled, with or
\* without items, the statistics status() reads are overwritten with that
\* run's values: found = number of candidates, added = the run's added count,
\* the run's per-source values (an orchestration that raised has not completed
\* and is C17's case).
C21_StatsOverwritten ==
    [][/\ \A h \in ParseIds :
            (/\ parse[h].pc \in {"scrape", "report"} /\ parse'[h].pc = "idle"
             /\ ~scrape_all_sources(budget.feed).raised) =>
                /\ stats'.found = Len(scrape_all_sources(budget.feed).items)
                /\ stats'.added = parse[h].added
                /\ stats'.sources = scrape_all_sources(budget.feed).sources
       /\ \A t \in TaskIds :
            (/\ tasks[t].pc \in {"scrape", "report"} /\ tasks'[t].pc = "sleep"
             /\ ~scrape_all_sources(budget.feed).raised) =>
                /\ stats'.found = Len(scrape_all_sources(budget.feed).items)
                /\ stats'.added = tasks[t].added
                /\ stats'.duplicates = tasks[t].duplicates
                /\ stats'.sources = scrape_all_sources(budget.feed).sources]_vars

---------------------------------------------------------------------------
(* The orchestrator, checked under OrchSpec *)

OrchItemsUpTo(n) ==
    (IF n >= 1 THEN budget.feed[1].items ELSE <<>>)
        \o (IF n >= 2 THEN budget.feed[2].items ELSE <<>>)
        \o (IF n >= 3 THEN budget.feed[3].items ELSE <<>>)

\* C22: within one call the adapters are called one after another in the
\* order TechCrunch, The Verge, VentureBeat: at most one is in flight, and it
\* is the one after those that have returned; the item sequence is at every
\* point the concatenation, in that order, of the lists of the adapters that
\* have returned; the result's count of each source is the number of its
\* items in the sequence, the counts sum to the length of the sequence, and
\* the result is the one the handlers' single step takes.
C22_SequentialInOrder ==
    /\ Cardinality(orch.inflight) <= 1
    /\ orch.inflight \subseteq {orch.done + 1}
    /\ orch.pc # "idle" => DOMAIN orch.source_stats = 1..orch.done
    /\ orch.pc \in {"run", "returned"} => orch.all_news = OrchItemsUpTo(orch.done)
    /\ orch.pc = "returned" =>
          /\ orch.done = 3
          /\ \A k \in 1..3 : orch.source_stats[k].count = Len(budget.feed[k].items)
          /\ orch.source_stats[1].count + orch.source_stats[2].count
                + orch.source_stats[3].count = Len(orch.all_news)
          /\ \A k \in 1..3 : \A j \in 1..orch.source_stats[k].count :
                orch.all_news[Len(OrchItemsUpTo(k - 1)) + j] = budget.feed[k].items[j]
          /\ ~scrape_all_sources(budget.feed).raised
          /\ orch.all_news = scrape_all_sources(budget.feed).items
          /\ \A k \in 1..3 : orch.source_stats[k] = scrape_all_sources(budget.feed).sources[k]

\* A call has returned three items, one per source, the first two different.
C22_Witness ==
    /\ orch.pc = "returned"
    /\ Len(orch.all_news) = 3
    /\ orch.all_news[1] # orch.all_news[2]
    /\ \A k \in 1..3 : orch.source_stats[k].count = 1

---------------------------------------------------------------------------
(* Delivery, checked under AllSpec; the running flag, checked under SchedSpec *)

\* C24: no item is delivered twice.  A publish request whose send has just
\* succeeded (it is about to mark the item) holds an item that no other
\* request has delivered: the item is not yet marked sent and no other
\* request, its own send succeeded, is about to mark the same item.
C24_DeliveredAtMostOnce ==
    \A p \in PubIds :
        (pub[p].pc = "mark" /\ pub[p].success) =>
            /\ \A i \in 1..Len(store) : store[i].id = pub[p].id => ~store[i].sent
            /\ \A q \in PubIds \ {p} :
                  (pub[q].pc = "mark" /\ pub[q].success) => pub[q].id # pub[p].id

\* C23: while the scheduler is running the pending count eventually reaches
\* the target size (checked under TopSpec).
C23_QueueToppedUp ==
    [](running => <>(Cardinality(Unsent(store)) >= TargetPending))

\* C25: whenever no start request is part-way (a stop request is one step),
\* a true running flag comes with a live loop task.
C25_RunningHasLoop ==
    (running /\ \A s \in StartIds : starts[s].pc = "idle") => LiveTasks # {}

====
